---- MODULE Spec2Model ----
(***************************************************************************)
(* A model of src/main.py: the narrated-slideshow generator.               *)
(*                                                                         *)
(*   - ScriptSegment and its duration estimate          (SpecDuration)     *)
(*   - TextToVideoGenerator.generate_video and helpers  (Spec)             *)
(*   - save_config / load_config through a JSON document (SpecConfig)      *)
(*                                                                         *)
(* Durations are integers in milliseconds.  An Optional value is a set:    *)
(* {} is None and {x} is the value x.  External collaborators (gTTS, PIL,  *)
(* moviepy, the filesystem) are nondeterministic choices over the outcomes *)
(* the code handles.                                                       *)
(***************************************************************************)
EXTENDS Integers, Sequences, FiniteSets, TLC

\* ---------------------------------------------------------------- bounds
MaxSegments == 2
MaxTextLen == 11
MaxUnlinkFailures == 1

\* ------------------------------------------------------ program constants
DefaultWordsPerMinute == 150
MinEstimateMs == 2000

VARIABLES
    \* generate_video
    pc, script_data, segments, idx, clips, temp_files, disk, pending, result,
    concat_called, concat_arg, encode_called, tts_calls,
    \* history of the run
    disk0, error, trace, registered, unlink_failed,
    \* ScriptSegment construction
    in_text, seg, prev_est,
    \* configuration persistence
    config, document, loaded

varsGen == <<pc, script_data, segments, idx, clips, temp_files, disk, pending,
             result, concat_called, concat_arg, encode_called, tts_calls,
             disk0, error, trace, registered, unlink_failed>>
varsDur == <<in_text, seg, prev_est>>
varsCfg == <<config, document, loaded>>
vars == <<varsGen, varsDur, varsCfg>>

\* ------------------------------------------------------------- helpers
Max(a, b) == IF a >= b THEN a ELSE b
Range(s) == {s[k] : k \in 1..Len(s)}
Some(o) == CHOOSE x \in o : TRUE

\* ------------------------------------------------------- ScriptSegment
IsSpace(c) == c \in {" ", "\t", "\n"}

\* str.split() with no argument: runs of whitespace separate the words,
\* leading and trailing whitespace yields no empty word.
RECURSIVE SplitFrom(_, _, _)
SplitFrom(text, k, cur) ==
    IF k > Len(text)
    THEN IF cur = <<>> THEN <<>> ELSE <<cur>>
    ELSE IF IsSpace(text[k])
         THEN IF cur = <<>>
              THEN SplitFrom(text, k + 1, <<>>)
              ELSE <<cur>> \o SplitFrom(text, k + 1, <<>>)
         ELSE SplitFrom(text, k + 1, Append(cur, text[k]))

split(text) == SplitFrom(text, 1, <<>>)

\* A missing floor: the raw words / rate * 60.
estimate_duration_nofloor(text, words_per_minute) ==
    (Len(split(text)) * 60000) \div words_per_minute

\* ScriptSegment._estimate_duration
estimate_duration(text, words_per_minute) ==
    LET word_count == Len(split(text))
        duration == (word_count * 60000) \div words_per_minute
    IN  Max(duration, MinEstimateMs)

\* ScriptSegment(text, duration) with __post_init__
ScriptSegment(text, duration) ==
    [text |-> text,
     duration |-> IF duration = {}
                  THEN estimate_duration(text, DefaultWordsPerMinute)
                  ELSE Some(duration),
     font_size |-> {}]

\* ------------------------------------------------- SpecDuration: inputs
TextAlphabet == {"w", " "}
ExplicitDurations == {0, 500, 3000}

\* Words of a text counted by their first characters.
CountWords(text) ==
    Cardinality({k \in 1..Len(text) :
                    /\ ~IsSpace(text[k])
                    /\ (k = 1 \/ IsSpace(text[k - 1]))})

\* The last segment built with an estimated duration, if any.
Remembered ==
    IF seg # {} /\ Some(seg).arg = {}
    THEN {[words |-> CountWords(Some(seg).segment.text),
           duration |-> Some(seg).segment.duration]}
    ELSE prev_est

InitDur ==
    /\ in_text = <<>>
    /\ seg = {}
    /\ prev_est = {}

\* The caller extends the text of the next segment by one character.
TypeChar ==
    /\ UNCHANGED <<varsGen, varsCfg>>
    /\ Len(in_text) < MaxTextLen
    /\ \E c \in TextAlphabet : in_text' = Append(in_text, c)
    /\ seg' = {}
    /\ prev_est' = Remembered

\* The caller starts over with an empty text.
ClearText ==
    /\ UNCHANGED <<varsGen, varsCfg>>
    /\ in_text # <<>>
    /\ in_text' = <<>>
    /\ seg' = {}
    /\ prev_est' = Remembered

\* ScriptSegment(text=in_text): the duration is estimated.
ConstructEstimated ==
    /\ UNCHANGED <<varsGen, varsCfg>>
    /\ seg = {}
    /\ seg' = {[segment |-> ScriptSegment(in_text, {}), arg |-> {}]}
    /\ UNCHANGED <<in_text, prev_est>>

\* ScriptSegment(text=in_text, duration=d)
ConstructExplicit ==
    /\ UNCHANGED <<varsGen, varsCfg>>
    /\ seg = {}
    /\ \E d \in ExplicitDurations :
          seg' = {[segment |-> ScriptSegment(in_text, {d}), arg |-> {d}]}
    /\ UNCHANGED <<in_text, prev_est>>

NextDur ==
    \/ TypeChar
    \/ ClearText
    \/ ConstructEstimated
    \/ ConstructExplicit

\* ------------------------------------------------ generate_video: inputs
RECURSIVE Words(_)
Words(n) == IF n = 0 THEN <<>>
            ELSE IF n = 1 THEN <<"w">>
            ELSE Words(n - 1) \o <<" ", "w">>

StrItem(t) == [kind |-> "str", text |-> t, duration |-> {}]
TupleItem(t, d) == [kind |-> "tuple", text |-> t, duration |-> {d}]
SegmentItem(t, d) == [kind |-> "ScriptSegment", text |-> t, duration |-> {d}]
OtherItem == [kind |-> "other", text |-> <<>>, duration |-> {}]

Items == {StrItem(Words(8)), TupleItem(Words(1), 1000),
          SegmentItem(Words(1), 5000), OtherItem}

Scripts == UNION {[1..n -> Items] : n \in 0..MaxSegments}

AudioDurations == {1500, 4000}

\* ------------------------------------------------------------ filesystem
Png(i) == [kind |-> "png", idx |-> i]
Mp3(i) == [kind |-> "mp3", idx |-> i]
BgPath == [kind |-> "bg", idx |-> 0]
OutDir == [kind |-> "outdir", idx |-> 0]
OutPath == [kind |-> "out", idx |-> 0]

IsScratch(f) == f.kind \in {"png", "mp3"}

\* An unlink that is skipped: nothing is removed from the disk.
cleanup_temp_files_nounlink(files, dsk, failing) ==
    [disk |-> dsk, temp_files |-> <<>>]

\* _cleanup_temp_files: every registered path that exists is unlinked, a
\* failing unlink is logged and skipped, and the registry is cleared.
cleanup_temp_files(files, dsk, failing) ==
    [disk |-> dsk \ (Range(files) \ failing), temp_files |-> <<>>]

\* --------------------------------------------------------- normalisation
\* generate_video, the loop over script_data: ok is FALSE when an item of
\* no known shape raises ValueError.
RECURSIVE NormalizeFrom(_, _)
NormalizeFrom(items, acc) ==
    IF items = <<>>
    THEN [ok |-> TRUE, segments |-> acc]
    ELSE LET item == Head(items) IN
         IF item.kind = "str"
         THEN NormalizeFrom(Tail(items),
                            Append(acc, ScriptSegment(item.text, {})))
         ELSE IF item.kind = "tuple"
         THEN NormalizeFrom(Tail(items),
                            Append(acc, ScriptSegment(item.text, item.duration)))
         ELSE IF item.kind = "ScriptSegment"
         THEN NormalizeFrom(Tail(items),
                            Append(acc, [text |-> item.text,
                                         duration |-> Some(item.duration),
                                         font_size |-> {}]))
         ELSE [ok |-> FALSE, segments |-> acc]

\* ------------------------------------------------------ segment renderer
Outcomes == {"bg_load_fail", "overlay_fail", "image_save_fail", "tts_fail",
             "tts_fail_partial", "tts_ok", "audio_load_fail"}

TtsInvoked(o) == o \in {"tts_fail", "tts_fail_partial", "tts_ok", "audio_load_fail"}
TtsSucceeded(o) == o \in {"tts_ok", "audio_load_fail"}

Clip(i, duration, audio) == [src |-> i, duration |-> duration, audio |-> audio]

\* A failed synthesis drops the segment.
create_video_segment_drop(segment, i, o, adur) ==
    IF o \in {"bg_load_fail", "overlay_fail"}
    THEN [ret |-> {}, created |-> {}, appended |-> <<>>]
    ELSE IF o = "image_save_fail"
    THEN [ret |-> {}, created |-> {Png(i)}, appended |-> <<>>]
    ELSE IF o = "tts_ok"
    THEN [ret |-> {Clip(i, Max(segment.duration, adur), TRUE)},
          created |-> {Png(i), Mp3(i)}, appended |-> <<Png(i), Mp3(i)>>]
    ELSE [ret |-> {},
          created |-> IF o = "tts_fail" THEN {Png(i)} ELSE {Png(i), Mp3(i)},
          appended |-> <<Png(i), Mp3(i)>>]

\* The clip with audio is held for the segment's duration only.
create_video_segment_nomax(segment, i, o, adur) ==
    IF o \in {"bg_load_fail", "overlay_fail"}
    THEN [ret |-> {}, created |-> {}, appended |-> <<>>]
    ELSE IF o = "image_save_fail"
    THEN [ret |-> {}, created |-> {Png(i)}, appended |-> <<>>]
    ELSE IF o = "tts_ok"
    THEN [ret |-> {Clip(i, segment.duration, TRUE)},
          created |-> {Png(i), Mp3(i)}, appended |-> <<Png(i), Mp3(i)>>]
    ELSE IF o = "audio_load_fail"
    THEN [ret |-> {}, created |-> {Png(i), Mp3(i)},
          appended |-> <<Png(i), Mp3(i)>>]
    ELSE [ret |-> {Clip(i, segment.duration, FALSE)},
          created |-> IF o = "tts_fail" THEN {Png(i)} ELSE {Png(i), Mp3(i)},
          appended |-> <<Png(i), Mp3(i)>>]

\* _create_video_segment with _generate_audio, under outcome o of the
\* collaborators; adur is the measured length of the synthesized audio
\* (AudioFileClip.duration), read only when the audio clip was loaded.
\*   ret      the returned clip, {} for None
\*   created  the files the call leaves on disk
\*   appended the paths the call appends to temp_files, in order
create_video_segment(segment, i, o, adur) ==
    IF o \in {"bg_load_fail", "overlay_fail"}
    THEN \* Image.open raises: return None; the overlay raises: outer except
         [ret |-> {}, created |-> {}, appended |-> <<>>]
    ELSE IF o = "image_save_fail"
    THEN \* NamedTemporaryFile(delete=False) has created the file, then
         \* final_image.save raises before temp_files.append
         [ret |-> {}, created |-> {Png(i)}, appended |-> <<>>]
    ELSE IF o = "tts_ok"
    THEN [ret |-> {Clip(i, Max(segment.duration, adur), TRUE)},
          created |-> {Png(i), Mp3(i)}, appended |-> <<Png(i), Mp3(i)>>]
    ELSE IF o = "audio_load_fail"
    THEN \* AudioFileClip raises: outer except, return None
         [ret |-> {}, created |-> {Png(i), Mp3(i)},
          appended |-> <<Png(i), Mp3(i)>>]
    ELSE \* gTTS raises, before or after tts.save opened the file:
         \* _generate_audio returns None, video-only clip
         [ret |-> {Clip(i, segment.duration, FALSE)},
          created |-> IF o = "tts_fail" THEN {Png(i)} ELSE {Png(i), Mp3(i)},
          appended |-> <<Png(i), Mp3(i)>>]

\* The clip is put in front of the list.
collect_prepend(cs, ret) == IF ret # {} THEN <<Some(ret)>> \o cs ELSE cs

\* generate_video: if clip: clips.append(clip)
collect(cs, ret) == IF ret # {} THEN Append(cs, Some(ret)) ELSE cs

\* An empty clip list goes on to concatenation.
after_loop_nocheck(cs) == "concat"

\* generate_video: if not clips: raise ValueError
after_loop(cs) == IF cs = <<>> THEN "except" ELSE "concat"

Expected == {"ValueError_format", "ValueError_empty", "ValueError_no_clips",
             "encode_error"}
Unexpected == {"background_error", "mkdir_error", "concat_error"}

\* An unexpected error is raised again.
except_handler_reraise(e) == IF e \in Unexpected THEN "raised" ELSE "False"

\* generate_video: except Exception: log, return False
except_handler(e) == "False"

\* ------------------------------------------------- generate_video: steps
InitGen ==
    /\ pc = "idle"
    /\ script_data = <<>>
    /\ segments = <<>>
    /\ idx = 1
    /\ clips = <<>>
    /\ temp_files = <<>>
    /\ pending = "none"
    /\ result = "none"
    /\ concat_called = FALSE
    /\ concat_arg = <<>>
    /\ encode_called = FALSE
    /\ tts_calls = 0
    /\ error = "none"
    /\ trace = <<>>
    /\ registered = {}
    /\ unlink_failed = {}
    /\ disk0 = disk

Raise(e) ==
    /\ error' = e
    /\ pc' = "except"

\* generator.generate_video(script_data, bg_image_path, output_path)
GenerateVideo ==
    /\ UNCHANGED <<varsDur, varsCfg>>
    /\ pc = "idle"
    /\ \E items \in Scripts : script_data' = items
    /\ pc' = "normalize"
    /\ UNCHANGED <<segments, idx, clips, temp_files, disk, pending, result,
                   concat_called, concat_arg, encode_called, tts_calls,
                   disk0, error, trace, registered, unlink_failed>>

\* Normalize script data to ScriptSegment objects
Normalize ==
    /\ UNCHANGED <<varsDur, varsCfg>>
    /\ pc = "normalize"
    /\ LET r == NormalizeFrom(script_data, <<>>) IN
          IF r.ok
          THEN /\ segments' = r.segments
               /\ pc' = "background"
               /\ error' = error
          ELSE /\ Raise("ValueError_format")
               /\ segments' = segments
    /\ UNCHANGED <<script_data, idx, clips, temp_files, disk, pending, result,
                   concat_called, concat_arg, encode_called, tts_calls,
                   disk0, trace, registered, unlink_failed>>

\* Create default background if needed
EnsureBackground ==
    /\ UNCHANGED <<varsDur, varsCfg>>
    /\ pc = "background"
    /\ IF BgPath \in disk
       THEN /\ pc' = "validate"
            /\ UNCHANGED <<disk, error>>
       ELSE \/ /\ disk' = disk \cup {BgPath}
               /\ pc' = "validate"
               /\ error' = error
            \/ /\ Raise("background_error")
               /\ disk' = disk
    /\ UNCHANGED <<script_data, segments, idx, clips, temp_files, pending,
                   result, concat_called, concat_arg, encode_called, tts_calls,
                   disk0, trace, registered, unlink_failed>>

\* _validate_inputs(segments, bg_image_path, output_path); its return
\* value is not used by generate_video.
ValidateInputs ==
    /\ UNCHANGED <<varsDur, varsCfg>>
    /\ pc = "validate"
    /\ IF segments = <<>>
       THEN /\ Raise("ValueError_empty")
            /\ disk' = disk
       ELSE IF BgPath \notin disk
       THEN /\ pc' = "render"
            /\ UNCHANGED <<disk, error>>
       ELSE \/ /\ disk' = disk \cup {OutDir}
               /\ pc' = "render"
               /\ error' = error
            \/ /\ OutDir \notin disk
               /\ Raise("mkdir_error")
               /\ disk' = disk
    /\ UNCHANGED <<script_data, segments, idx, clips, temp_files, pending,
                   result, concat_called, concat_arg, encode_called, tts_calls,
                   disk0, trace, registered, unlink_failed>>

\* One iteration of the loop over the segments.
CreateVideoSegment ==
    /\ UNCHANGED <<varsDur, varsCfg>>
    /\ pc = "render"
    /\ idx <= Len(segments)
    /\ \E o \in Outcomes, adur \in AudioDurations :
          LET r == create_video_segment(segments[idx], idx, o, adur) IN
             /\ clips' = collect(clips, r.ret)
             /\ temp_files' = temp_files \o r.appended
             /\ registered' = registered \cup Range(r.appended)
             /\ disk' = disk \cup r.created
             /\ tts_calls' = tts_calls + (IF TtsInvoked(o) THEN 1 ELSE 0)
             /\ trace' = Append(trace, [outcome |-> o,
                                        adur |-> IF o = "tts_ok" THEN adur ELSE 0,
                                        ret |-> r.ret])
    /\ idx' = idx + 1
    /\ UNCHANGED <<pc, script_data, segments, pending, result, concat_called,
                   concat_arg, encode_called, disk0, error, unlink_failed>>

\* The loop is over: no clip is an error.
CheckClips ==
    /\ UNCHANGED <<varsDur, varsCfg>>
    /\ pc = "render"
    /\ idx > Len(segments)
    /\ pc' = after_loop(clips)
    /\ error' = IF after_loop(clips) = "except" THEN "ValueError_no_clips" ELSE error
    /\ UNCHANGED <<script_data, segments, idx, clips, temp_files, disk, pending,
                   result, concat_called, concat_arg, encode_called, tts_calls,
                   disk0, trace, registered, unlink_failed>>

\* concatenate_videoclips(clips, method="compose")
Concatenate ==
    /\ UNCHANGED <<varsDur, varsCfg>>
    /\ pc = "concat"
    /\ concat_called' = TRUE
    /\ concat_arg' = clips
    /\ \/ /\ pc' = "encode"
          /\ error' = error
       \/ Raise("concat_error")
    /\ UNCHANGED <<script_data, segments, idx, clips, temp_files, disk, pending,
                   result, encode_called, tts_calls, disk0, trace, registered,
                   unlink_failed>>

\* final_video.write_videofile(output_path, ...), then close and return True
WriteVideofile ==
    /\ UNCHANGED <<varsDur, varsCfg>>
    /\ pc = "encode"
    /\ encode_called' = TRUE
    /\ \/ /\ disk' = disk \cup {OutPath}
          /\ pending' = "True"
          /\ pc' = "finally"
          /\ error' = error
       \/ /\ \E partial \in BOOLEAN :
                disk' = IF partial THEN disk \cup {OutPath} ELSE disk
          /\ Raise("encode_error")
          /\ pending' = pending
    /\ UNCHANGED <<script_data, segments, idx, clips, temp_files, result,
                   concat_called, concat_arg, tts_calls, disk0, trace,
                   registered, unlink_failed>>

\* except Exception as e
ExceptHandler ==
    /\ UNCHANGED <<varsDur, varsCfg>>
    /\ pc = "except"
    /\ pending' = except_handler(error)
    /\ pc' = "finally"
    /\ UNCHANGED <<script_data, segments, idx, clips, temp_files, disk, result,
                   concat_called, concat_arg, encode_called, tts_calls, disk0,
                   error, trace, registered, unlink_failed>>

\* finally: self._cleanup_temp_files(), then the call ends
Cleanup ==
    /\ UNCHANGED <<varsDur, varsCfg>>
    /\ pc = "finally"
    /\ \E failing \in SUBSET (Range(temp_files) \cap disk) :
          /\ Cardinality(failing) <= MaxUnlinkFailures
          /\ LET r == cleanup_temp_files(temp_files, disk, failing) IN
                /\ disk' = r.disk
                /\ temp_files' = r.temp_files
          /\ unlink_failed' = failing
    /\ result' = pending
    /\ pc' = "done"
    /\ UNCHANGED <<script_data, segments, idx, clips, pending, concat_called,
                   concat_arg, encode_called, tts_calls, disk0, error, trace,
                   registered>>

NextGen ==
    \/ GenerateVideo
    \/ Normalize
    \/ EnsureBackground
    \/ ValidateInputs
    \/ CreateVideoSegment
    \/ CheckClips
    \/ Concatenate
    \/ WriteVideofile
    \/ ExceptHandler
    \/ Cleanup

\* ------------------------------------------------ configuration: values
\* A Python value with its type; v is the sequence of its components.
PyInt(n) == [t |-> "int", v |-> <<n>>]
PyFloat(ms) == [t |-> "float", v |-> <<ms>>]
PyStr(s) == [t |-> "str", v |-> <<s>>]
PyBool(b) == [t |-> "bool", v |-> <<b>>]
PyTuple(elems) == [t |-> "tuple", v |-> elems]
PyList(elems) == [t |-> "list", v |-> elems]

\* json.dump of one value: int and float stay distinct numbers ("2" and
\* "2.0"), a tuple and a list are both written as an array.
json_dump_value(val) ==
    IF val.t = "int" THEN [j |-> "integer", v |-> val.v]
    ELSE IF val.t = "float" THEN [j |-> "real", v |-> val.v]
    ELSE IF val.t = "str" THEN [j |-> "string", v |-> val.v]
    ELSE IF val.t = "bool" THEN [j |-> "boolean", v |-> val.v]
    ELSE [j |-> "array", v |-> val.v]

\* json.load of one value: an array is read as a list.
json_load_value(js) ==
    IF js.j = "integer" THEN [t |-> "int", v |-> js.v]
    ELSE IF js.j = "real" THEN [t |-> "float", v |-> js.v]
    ELSE IF js.j = "string" THEN [t |-> "str", v |-> js.v]
    ELSE IF js.j = "boolean" THEN [t |-> "bool", v |-> js.v]
    ELSE [t |-> "list", v |-> js.v]

\* VideoConfig: the 13 fields, here with their defaults
VideoConfig(width, fps, font_size, text_color, bg_overlay_color, tts_slow) ==
    [width |-> PyInt(width),
     height |-> PyInt(1080),
     fps |-> PyInt(fps),
     font_size |-> PyInt(font_size),
     font_path |-> PyStr("Arial.ttf"),
     text_color |-> PyTuple(text_color),
     bg_overlay_color |-> PyTuple(bg_overlay_color),
     margin |-> PyInt(100),
     padding |-> PyInt(20),
     words_per_minute |-> PyInt(DefaultWordsPerMinute),
     min_duration |-> PyFloat(MinEstimateMs),
     tts_language |-> PyStr("en"),
     tts_slow |-> PyBool(tts_slow)]

DefaultConfig ==
    VideoConfig(1920, 24, 60, <<255, 255, 255>>, <<0, 0, 0, 128>>, FALSE)

Configs ==
    {VideoConfig(w, f, s, tc, oc, slow) :
        w \in {1920, 1280}, f \in {24, 30}, s \in {60, 72},
        tc \in {<<255, 255, 255>>, <<255, 255, 0>>},
        oc \in {<<0, 0, 0, 128>>, <<0, 0, 0, 150>>},
        slow \in BOOLEAN}

\* save_config: the dictionary of the 13 fields, written by json.dump
save_config(cfg) == [k \in DOMAIN cfg |-> json_dump_value(cfg[k])]

\* load_config: json.load, then VideoConfig(**config_dict)
load_config(doc) == [k \in DOMAIN doc |-> json_load_value(doc[k])]

InitCfg ==
    /\ config \in Configs
    /\ document = {}
    /\ loaded = {}

\* generator.save_config(config_path)
SaveConfig ==
    /\ UNCHANGED <<varsGen, varsDur>>
    /\ document' = {save_config(config)}
    /\ UNCHANGED <<config, loaded>>

\* TextToVideoGenerator.load_config(config_path)
LoadConfig ==
    /\ UNCHANGED <<varsGen, varsDur>>
    /\ document # {}
    /\ loaded' = {load_config(Some(document))}
    /\ UNCHANGED <<config, document>>

NextCfg ==
    \/ SaveConfig
    \/ LoadConfig

\* --------------------------------------------------------- specifications
IdleGen == disk = {} /\ InitGen
IdleDur == InitDur
IdleCfg == config = DefaultConfig /\ document = {} /\ loaded = {}

\* generate_video, from a disk that may hold the background image
Init ==
    /\ disk \in SUBSET {BgPath}
    /\ InitGen
    /\ IdleDur
    /\ IdleCfg

Next == NextGen

Spec == Init /\ [][Next]_vars

\* ScriptSegment construction
InitDuration == IdleGen /\ InitDur /\ IdleCfg
NextDuration == NextDur
SpecDuration == InitDuration /\ [][NextDuration]_vars

\* configuration persistence
InitConfig == IdleGen /\ IdleDur /\ InitCfg
NextConfig == NextCfg
SpecConfig == InitConfig /\ [][NextConfig]_vars

\* ================================================================ claims
Done == pc = "done"
LoopOver == Len(trace) = Len(segments) /\ segments # <<>>

\* The duration a script item asks for: its explicit one, or the estimate
\* from its word count at the default speaking rate.
ItemDuration(item) ==
    IF item.duration = {}
    THEN Max((CountWords(item.text) * 60 * 1000) \div DefaultWordsPerMinute,
             MinEstimateMs)
    ELSE Some(item.duration)

\* C1 (as claimed): once generate_video has returned, the registry is empty
\* and no path registered during the run exists on disk.
C1_NoRegisteredFileRemains ==
    Done => temp_files = <<>> /\ registered \cap disk = {}

\* C1 (amended): once generate_video has returned, the registry is empty and
\* every path registered during the run is gone from the disk unless its
\* unlink failed (the failure is logged and not escalated).
C1_CleanupBestEffort ==
    Done => /\ temp_files = <<>>
            /\ \A f \in registered : f \in disk => f \in unlink_failed

C1_Witness ==
    /\ Done
    /\ error # "none"
    /\ unlink_failed # {}
    /\ \E f \in registered : f \notin disk

\* C2: the clips handed to concatenation are the clips of the segments whose
\* _create_video_segment call returned one, in input order; a failed segment
\* is skipped and every segment is attempted; when every call succeeds the
\* k-th clip comes from the k-th segment.
C2_ClipsInInputOrder ==
    /\ \A k \in 1..Len(trace) : \A c \in trace[k].ret : c.src = k
    /\ concat_called =>
          /\ Len(trace) = Len(segments)
          /\ \A a, b \in 1..Len(concat_arg) :
                a < b => concat_arg[a].src < concat_arg[b].src
          /\ {concat_arg[k].src : k \in 1..Len(concat_arg)} =
                {k \in 1..Len(trace) : trace[k].ret # {}}
          /\ \A k \in 1..Len(concat_arg) :
                concat_arg[k] \in trace[concat_arg[k].src].ret
          /\ (\A k \in 1..Len(trace) : trace[k].ret # {}) =>
                /\ Len(concat_arg) = Len(script_data)
                /\ \A k \in 1..Len(concat_arg) : concat_arg[k].src = k

C2_Witness ==
    /\ concat_called
    /\ Len(trace) >= 2
    /\ trace[1].ret = {}
    /\ trace[2].ret # {}

\* C3: when speech synthesis fails for every segment of a well-formed list
\* (background loaded, image saved), no segment is dropped: every segment
\* yields a clip without audio held for the segment's own duration, and the
\* run goes on to concatenation.
AllSynthesisFailed ==
    /\ LoopOver
    /\ \A k \in 1..Len(trace) :
          trace[k].outcome \in {"tts_fail", "tts_fail_partial"}

C3_ImageOnlyClips ==
    AllSynthesisFailed =>
        /\ Len(clips) = Len(script_data)
        /\ \A k \in 1..Len(clips) :
              clips[k] = Clip(k, ItemDuration(script_data[k]), FALSE)
        /\ error # "ValueError_no_clips"
        /\ pc \in {"finally", "done"} => concat_called /\ concat_arg = clips

C3_Witness ==
    /\ Done
    /\ result = "True"
    /\ AllSynthesisFailed
    /\ Len(segments) >= 2

\* C5: a clip of a segment whose speech synthesis succeeded carries the
\* audio and lasts max(segment duration, measured audio duration), so it is
\* shorter than neither.
C5_AudioClipDuration ==
    /\ \A k \in 1..Len(trace) : trace[k].outcome = "tts_ok" => trace[k].ret # {}
    /\ \A k \in 1..Len(clips) :
          LET c == clips[k] IN
             TtsSucceeded(trace[c.src].outcome) =>
                /\ c.audio
                /\ c.duration >= ItemDuration(script_data[c.src])
                /\ c.duration >= trace[c.src].adur
                /\ c.duration \in {ItemDuration(script_data[c.src]),
                                   trace[c.src].adur}

C5_Witness ==
    \E k \in 1..Len(clips) :
       /\ clips[k].audio
       /\ script_data[clips[k].src].kind = "str"
       /\ clips[k].duration > ItemDuration(script_data[clips[k].src])

\* C6 (as claimed): an expected failure is returned as False, an unexpected
\* internal error is raised to the caller, both after cleanup.
C6_UnexpectedErrorRaised ==
    Done => /\ temp_files = <<>>
            /\ error \in Expected => result = "False"
            /\ error \in Unexpected => result = "raised"

\* C6 (amended): every error raised inside generate_video, expected or
\* unexpected, is reported by returning False, never by raising; the value is
\* delivered only after the cleanup has emptied the registry.
C6_EveryErrorReturnsFalse ==
    /\ ~Done => result = "none"
    /\ Done => /\ temp_files = <<>>
               /\ result \in {"True", "False"}
               /\ error # "none" <=> result = "False"

C6_Witness ==
    /\ Done
    /\ error \in Unexpected
    /\ result = "False"
    /\ registered # {}

\* C8: when every _create_video_segment call returned nothing, neither
\* concatenation nor encoding is invoked, nothing is written at the output
\* path, and generate_video returns failure.
NoClipProduced ==
    /\ LoopOver
    /\ \A k \in 1..Len(trace) : trace[k].ret = {}

C8_NoClipsNoOutput ==
    NoClipProduced =>
        /\ ~concat_called
        /\ ~encode_called
        /\ OutPath \notin disk
        /\ Done => result = "False"

C8_Witness ==
    /\ Done
    /\ NoClipProduced
    /\ Len(segments) >= 2
    /\ result = "False"

\* C4: with an empty list, or a list holding an item of no known shape,
\* generate_video returns failure without rendering a segment, without speech
\* synthesis or encoding, and without creating anything on disk.
BadInput ==
    \/ script_data = <<>>
    \/ \E k \in 1..Len(script_data) : script_data[k].kind = "other"

C4_BadInputNoSideEffect ==
    Done /\ BadInput =>
        /\ result = "False"
        /\ trace = <<>>
        /\ tts_calls = 0
        /\ ~concat_called
        /\ ~encode_called
        /\ disk = disk0

\* C10: during a run, every scratch file on disk (temporary PNG, temp_audio
\* mp3) is recorded in temp_files.
C10_ScratchFilesRegistered ==
    ~Done => \A f \in disk : IsScratch(f) => f \in Range(temp_files)

\* C7: a configuration saved by save_config and read back by load_config is
\* field for field the saved one, in value and in shape.
C7_RoundTripIdentical ==
    \A l \in loaded : \A k \in DOMAIN config : l[k] = config[k]

\* C9: an estimated duration is max(words / rate * 60, 2.0) seconds, so at
\* least 2.0 seconds and non-decreasing in the word count; an explicit
\* duration is kept as given.
C9_DurationEstimate ==
    \A s \in seg :
       /\ s.arg # {} => s.segment.duration = Some(s.arg)
       /\ s.arg = {} =>
             /\ s.segment.duration >= MinEstimateMs
             /\ s.segment.duration =
                   Max((CountWords(in_text) * 60 * 1000) \div DefaultWordsPerMinute,
                       MinEstimateMs)
             /\ \A p \in prev_est :
                   /\ p.words <= CountWords(in_text) =>
                         p.duration <= s.segment.duration
                   /\ p.words >= CountWords(in_text) =>
                         p.duration >= s.segment.duration

C9_Witness ==
    \E s \in seg, p \in prev_est :
       /\ s.arg = {}
       /\ p.words >= 1
       /\ p.words < CountWords(in_text)
       /\ p.duration < s.segment.duration

====
